---- MODULE Spec2Model ----
(***************************************************************************)
(* Model of the native shell in src-tauri/src/lib.rs: the command surface, *)
(* the tray icon and its menu, the window close hook and the background    *)
(* ticker, with the threads they run on.                                   *)
(*                                                                         *)
(* Tray, menu and window callbacks and the synchronous commands run on the *)
(* main thread, one handler at a time: each is one action.  The ticker and *)
(* the tasks spawned by the tray item "trigger" run on the async runtime's *)
(* worker threads, in parallel with the main thread: each of their         *)
(* externally visible calls (emit, notification show) is one action.       *)
(*                                                                         *)
(* A Rust String is modelled as the sequence of the pieces it was          *)
(* formatted from, so that "mentions X" and "is empty" can be evaluated.   *)
(***************************************************************************)
EXTENDS Naturals, Sequences, FiniteSets

VARIABLES
    running,        \* the process has not exited
    quitHandled,    \* the tray menu item "quit" has been handled
    window,         \* the main window: "none" (no handle), "hidden", "visible"
    focused,        \* the main window has the input focus
    hookRegistered, \* setup found the main window and registered the close hook
    frontend,       \* a frontend is attached to receive emitted events
    elapsed,        \* seconds elapsed since the ticker task was started
    ticks,          \* ticks of the interval the ticker has consumed
    tickerPc,       \* position of the ticker task inside its loop
    trigNotify,     \* spawned trigger tasks that have not yet asked for the notification
    trigEmit,       \* spawned trigger tasks between the notification and the emit
    checkResult,    \* what emit "check-due-action-items" returned in the tick being handled
    handles,        \* how many tray icons, ticker tasks and main windows exist
    emitted,        \* every emission attempt so far, in order
    last            \* the handler or task step executed last, with its result and effects

vars == << running, quitHandled, window, focused, hookRegistered, frontend,
           elapsed, ticks, tickerPc, checkResult, trigNotify, trigEmit, handles,
           emitted, last >>

\* ------------------------------------------------------------------ bounds

MaxIntervals == 1   \* intervals the clock is allowed to advance
MaxLog == 3         \* emission attempts recorded
MaxTasks == 1       \* trigger tasks in flight

\* Duration::from_secs(60): the period of the ticker, in seconds.
IntervalSecs == 60

\* The clock is observed once per period.
TimeStep == IntervalSecs

\* Whole intervals contained in a number of seconds.
Intervals(secs) == secs \div IntervalSecs

Names == {"Ann"}
Titles == {"Report", ""}
Bodies == {"is ready"}
DueDates == {"today"}
Executables == {"__nonexistent_binary__"}

\* What the OS display layer answers to a request to show a notification.
NotifyErrors == {"io", "denied"}
ShowResults == {"Ok"} \cup NotifyErrors

\* ------------------------------------------------------------------ values

Ok(v) == [tag |-> "Ok", val |-> v]
Err(v) == [tag |-> "Err", val |-> v]
NoRet == [tag |-> "None", val |-> << >>]

EmitEffect(name, ok) == [kind |-> "emit", name |-> name, ok |-> ok]
NotifyEffect(title, ok) == [kind |-> "notify", name |-> title, ok |-> ok]


\* e.to_string() of an error of the notification plugin.
to_string(e) ==
    IF e = "io" THEN << "I/O error" >> ELSE << "notification permission denied" >>

\* e.to_string() of an error of emit.
emit_error == << "failed to emit event" >>

\* app.emit(..): the attempt succeeds when a frontend is attached to receive it.
emit_ok == frontend
emit_result == IF emit_ok THEN "Ok" ELSE "Err"

\* ------------------------------------------------------ command surface

\* The commands handed to generate_handler!.
invoke_handler ==
    {"greet", "get_background_task_status", "trigger_background_task",
     "send_notification", "notify_due_action_item", "clear_due_item_notifications"}

\* What a frontend may try to invoke: the command surface of the specification.
FrontendCalls == invoke_handler \cup {"run_command"}

greet(name) == << "Hello, ", name, "! You've been greeted from Rust!" >>

get_background_task_status == << "Background task is running" >>

trigger_background_task == << "Background task triggered manually" >>

\* Variant: the error of show() is dropped.
send_notification_swallow(shown) == Ok(<< >>)

\* send_notification: show(), map_err(to_string)?, Ok(()).
send_notification(shown) ==
    IF shown = "Ok" THEN Ok(<< >>) ELSE Err(to_string(shown))

\* notify_due_action_item: the body is format!("\"{}\" is due {}", title, due_date).
notification_body(title, due_date) == << "\"", title, "\" is due ", due_date >>

notify_due_action_item(shown) ==
    IF shown = "Ok" THEN Ok(<< >>) ELSE Err(to_string(shown))

\* clear_due_item_notifications: emit, map_err(to_string)?, Ok(text).
clear_due_item_notifications(ok) ==
    IF ok THEN Ok(<< "Notification clear request sent to frontend" >>)
    ELSE Err(emit_error)

\* The effects of the three commands that have a tray menu counterpart.
StatusCmdEffects == << >>
TriggerCmdEffects == << >>
ClearCmdEffects == << EmitEffect("clear-due-item-notifications", emit_ok) >>

\* ------------------------------------------------------------------ state

Init ==
    /\ running = TRUE
    /\ quitHandled = FALSE
    /\ window \in {"none", "hidden", "visible"}
    /\ focused \in (IF window = "visible" THEN BOOLEAN ELSE {FALSE})
    /\ hookRegistered = (window # "none")
    /\ frontend = FALSE
    /\ elapsed = 0
    /\ ticks = 0
    /\ tickerPc = "wait"
    /\ checkResult = "none"
    /\ trigNotify = 0
    /\ trigEmit = 0
    /\ handles = [trays |-> 1, tickers |-> 1,
                  windows |-> IF window = "none" THEN 0 ELSE 1]
    /\ emitted = << >>
    /\ last = [op |-> "setup", args |-> << >>, ret |-> NoRet, out |-> << >>]

Record(op, args, ret, out) ==
    last' = [op |-> op, args |-> args, ret |-> ret, out |-> out]

LogEmit(name, tick) ==
    /\ Len(emitted) < MaxLog
    /\ emitted' = Append(emitted, [name |-> name, tick |-> tick])

ProcessSame == UNCHANGED << running, quitHandled, handles >>
WindowSame == UNCHANGED << window, focused, hookRegistered >>
TickerSame == UNCHANGED << elapsed, ticks, tickerPc, checkResult >>
TasksSame == UNCHANGED << trigNotify, trigEmit >>

\* ------------------------------------------------------------ environment

\* Time passes.
TimePasses ==
    /\ running
    /\ elapsed < MaxIntervals * IntervalSecs
    /\ elapsed' = elapsed + TimeStep
    /\ Record("time_passes", << >>, NoRet, << >>)
    /\ UNCHANGED << ticks, tickerPc, checkResult, frontend, emitted >>
    /\ ProcessSame /\ WindowSame /\ TasksSame

\* The webview of the main window starts or stops listening.
FrontendAttach ==
    /\ running
    /\ window # "none"
    /\ ~frontend
    /\ frontend' = TRUE
    /\ Record("frontend_attached", << >>, NoRet, << >>)
    /\ UNCHANGED emitted
    /\ ProcessSame /\ WindowSame /\ TickerSame /\ TasksSame

FrontendDetach ==
    /\ running
    /\ frontend
    /\ frontend' = FALSE
    /\ Record("frontend_detached", << >>, NoRet, << >>)
    /\ UNCHANGED emitted
    /\ ProcessSame /\ WindowSame /\ TickerSame /\ TasksSame

\* The main window is destroyed from outside this code: later lookups of
\* "main" return None.
WindowGone ==
    /\ running
    /\ window # "none"
    /\ window' = "none"
    /\ focused' = FALSE
    /\ frontend' = FALSE
    /\ handles' = [handles EXCEPT !.windows = 0]
    /\ Record("window_gone", << >>, NoRet, << >>)
    /\ UNCHANGED << running, quitHandled, hookRegistered, emitted >>
    /\ TickerSame /\ TasksSame

\* ------------------------------------------------------ frontend commands

Greet(name) ==
    /\ running
    /\ "greet" \in invoke_handler
    /\ Record("greet", << name >>, Ok(greet(name)), << >>)
    /\ UNCHANGED << frontend, emitted >>
    /\ ProcessSame /\ WindowSame /\ TickerSame /\ TasksSame

GetBackgroundTaskStatus ==
    /\ running
    /\ "get_background_task_status" \in invoke_handler
    /\ Record("get_background_task_status", << >>,
              Ok(get_background_task_status), StatusCmdEffects)
    /\ UNCHANGED << frontend, emitted >>
    /\ ProcessSame /\ WindowSame /\ TickerSame /\ TasksSame

TriggerBackgroundTask ==
    /\ running
    /\ "trigger_background_task" \in invoke_handler
    /\ Record("trigger_background_task", << >>,
              Ok(trigger_background_task), TriggerCmdEffects)
    /\ UNCHANGED << frontend, emitted >>
    /\ ProcessSame /\ WindowSame /\ TickerSame /\ TasksSame

SendNotification(title, body, shown) ==
    /\ running
    /\ "send_notification" \in invoke_handler
    /\ Record("send_notification", << title, body >>, send_notification(shown),
              << NotifyEffect(title, shown = "Ok") >>)
    /\ UNCHANGED << frontend, emitted >>
    /\ ProcessSame /\ WindowSame /\ TickerSame /\ TasksSame

NotifyDueActionItem(title, due_date, shown) ==
    /\ running
    /\ "notify_due_action_item" \in invoke_handler
    /\ Record("notify_due_action_item", notification_body(title, due_date),
              notify_due_action_item(shown),
              << NotifyEffect("Action Item Due", shown = "Ok") >>)
    /\ UNCHANGED << frontend, emitted >>
    /\ ProcessSame /\ WindowSame /\ TickerSame /\ TasksSame

\* Variant: the confirmation is returned without emitting.
ClearDueItemNotifications_NoEmit ==
    /\ running
    /\ "clear_due_item_notifications" \in invoke_handler
    /\ Record("clear_due_item_notifications", << >>,
              clear_due_item_notifications(TRUE), << >>)
    /\ UNCHANGED << frontend, emitted >>
    /\ ProcessSame /\ WindowSame /\ TickerSame /\ TasksSame

ClearDueItemNotifications ==
    /\ running
    /\ "clear_due_item_notifications" \in invoke_handler
    /\ LogEmit("clear-due-item-notifications", 0)
    /\ Record("clear_due_item_notifications", << >>,
              clear_due_item_notifications(emit_ok), ClearCmdEffects)
    /\ UNCHANGED frontend
    /\ ProcessSame /\ WindowSame /\ TickerSame /\ TasksSame

\* A command name that generate_handler! was not given: the framework rejects
\* the invocation and no code of this repository runs.
InvokeUnregistered(cmd, exe) ==
    /\ running
    /\ cmd \in FrontendCalls \ invoke_handler
    /\ Record(cmd, << exe >>, Err(<< "Command ", cmd, " not found" >>), << >>)
    /\ UNCHANGED << frontend, emitted >>
    /\ ProcessSame /\ WindowSame /\ TickerSame /\ TasksSame

\* ------------------------------------------------------------- tray icon

\* Variant: unwrap_or(true).
unwrap_or_true(queried) == IF queried = "Err" THEN TRUE ELSE window = "visible"

\* window.is_visible().unwrap_or(false): `queried` tells whether the query
\* itself succeeded.
is_visible_or_false(queried) == IF queried = "Err" THEN FALSE ELSE window = "visible"

TrayClick(queried) ==
    /\ running
    /\ IF window = "none"
         THEN UNCHANGED << window, focused >>
         ELSE IF is_visible_or_false(queried)
                THEN window' = "hidden" /\ focused' = FALSE
                ELSE window' = "visible" /\ focused' = TRUE
    /\ Record("tray_click", << queried >>, NoRet, << >>)
    /\ UNCHANGED << hookRegistered, frontend, emitted >>
    /\ ProcessSame /\ TickerSame /\ TasksSame

\* Variant: the match on button and button state is missing.
TrayOtherEvent_Toggles ==
    /\ running
    /\ IF window = "none"
         THEN UNCHANGED << window, focused >>
         ELSE IF window = "visible"
                THEN window' = "hidden" /\ focused' = FALSE
                ELSE window' = "visible" /\ focused' = TRUE
    /\ Record("tray_other", << >>, NoRet, << >>)
    /\ UNCHANGED << hookRegistered, frontend, emitted >>
    /\ ProcessSame /\ TickerSame /\ TasksSame

\* on_tray_icon_event, any other tray event: `_ => {}`.
TrayOtherEvent ==
    /\ running
    /\ Record("tray_other", << >>, NoRet, << >>)
    /\ UNCHANGED << frontend, emitted >>
    /\ ProcessSame /\ WindowSame /\ TickerSame /\ TasksSame

\* ------------------------------------------------------------- tray menu

\* Variant: the lookup is unwrapped, a missing window panics.
MenuShow_Unwrap ==
    /\ running
    /\ IF window = "none"
         THEN running' = FALSE /\ UNCHANGED << window, focused >>
         ELSE running' = TRUE /\ window' = "visible" /\ focused' = TRUE
    /\ Record("menu_show", << >>, NoRet, << >>)
    /\ UNCHANGED << quitHandled, handles, hookRegistered, frontend, emitted >>
    /\ TickerSame /\ TasksSame

\* "show": show and focus the window if it can be looked up.
MenuShow ==
    /\ running
    /\ IF window = "none"
         THEN UNCHANGED << window, focused >>
         ELSE window' = "visible" /\ focused' = TRUE
    /\ Record("menu_show", << >>, NoRet, << >>)
    /\ UNCHANGED << hookRegistered, frontend, emitted >>
    /\ ProcessSame /\ TickerSame /\ TasksSame

\* "hide": hide the window if it can be looked up.
MenuHide ==
    /\ running
    /\ IF window = "none"
         THEN UNCHANGED << window, focused >>
         ELSE window' = "hidden" /\ focused' = FALSE
    /\ Record("menu_hide", << >>, NoRet, << >>)
    /\ UNCHANGED << hookRegistered, frontend, emitted >>
    /\ ProcessSame /\ TickerSame /\ TasksSame

\* Variant: "status" only logs, as the command does.
MenuStatus_Silent(shown) ==
    /\ running
    /\ Record("menu_status", << >>, NoRet, << >>)
    /\ UNCHANGED << frontend, emitted >>
    /\ ProcessSame /\ WindowSame /\ TickerSame /\ TasksSame

MenuStatus(shown) ==
    /\ running
    /\ Record("menu_status", << >>, NoRet,
              << NotifyEffect("Background Task Status", shown = "Ok") >>)
    /\ UNCHANGED << frontend, emitted >>
    /\ ProcessSame /\ WindowSame /\ TickerSame /\ TasksSame

\* Variant: "trigger" starts the background loop once more.
MenuTrigger_SpawnsTicker ==
    /\ running
    /\ trigNotify + trigEmit < MaxTasks
    /\ trigNotify' = trigNotify + 1
    /\ handles' = [handles EXCEPT !.tickers = 2]
    /\ Record("menu_trigger", << >>, NoRet, << >>)
    /\ UNCHANGED << running, quitHandled, trigEmit, frontend, emitted >>
    /\ WindowSame /\ TickerSame

\* "trigger": the handler only spawns the task and returns.
MenuTrigger ==
    /\ running
    /\ trigNotify + trigEmit < MaxTasks
    /\ trigNotify' = trigNotify + 1
    /\ Record("menu_trigger", << >>, NoRet, << >>)
    /\ UNCHANGED << trigEmit, frontend, emitted >>
    /\ ProcessSame /\ WindowSame /\ TickerSame

\* Variant: the confirmation is shown whatever emit returned.
MenuClearNotifications_AlwaysConfirms(shown) ==
    /\ running
    /\ LogEmit("clear-due-item-notifications", 0)
    /\ Record("menu_clear_notifications", << >>, NoRet,
              << EmitEffect("clear-due-item-notifications", emit_ok),
                 NotifyEffect("Notifications Cleared", shown = "Ok") >>)
    /\ UNCHANGED frontend
    /\ ProcessSame /\ WindowSame /\ TickerSame /\ TasksSame

\* "clear-notifications": emit; the confirmation is shown in the else branch.
MenuClearNotifications(shown) ==
    /\ running
    /\ LogEmit("clear-due-item-notifications", 0)
    /\ Record("menu_clear_notifications", << >>, NoRet,
              IF emit_ok
                THEN << EmitEffect("clear-due-item-notifications", TRUE),
                        NotifyEffect("Notifications Cleared", shown = "Ok") >>
                ELSE << EmitEffect("clear-due-item-notifications", FALSE) >>)
    /\ UNCHANGED frontend
    /\ ProcessSame /\ WindowSame /\ TickerSame /\ TasksSame

\* Variant: the exit waits for the spawned trigger tasks to finish.
MenuQuit_DrainsTasks ==
    /\ running
    /\ running' = (trigNotify + trigEmit > 0)
    /\ quitHandled' = TRUE
    /\ Record("menu_quit", << >>, NoRet, << >>)
    /\ UNCHANGED << frontend, handles, emitted >>
    /\ WindowSame /\ TickerSame /\ TasksSame

\* "quit": app.exit(0).
MenuQuit ==
    /\ running
    /\ running' = FALSE
    /\ quitHandled' = TRUE
    /\ Record("menu_quit", << >>, NoRet, << >>)
    /\ UNCHANGED << frontend, handles, emitted >>
    /\ WindowSame /\ TickerSame /\ TasksSame

\* Any other menu id: `_ => {}`.
MenuOther ==
    /\ running
    /\ Record("menu_other", << >>, NoRet, << >>)
    /\ UNCHANGED << frontend, emitted >>
    /\ ProcessSame /\ WindowSame /\ TickerSame /\ TasksSame

\* ------------------------------------------------- spawned trigger task

\* Variant: the task returns when the notification could not be shown.
TriggerTaskNotify_ReturnsOnError(shown) ==
    /\ running
    /\ trigNotify > 0
    /\ trigNotify' = trigNotify - 1
    /\ trigEmit' = IF shown = "Ok" THEN trigEmit + 1 ELSE trigEmit
    /\ Record("trigger_task_notify", << >>, NoRet,
              << NotifyEffect("Manual Task", shown = "Ok") >>)
    /\ UNCHANGED << frontend, emitted >>
    /\ ProcessSame /\ WindowSame /\ TickerSame

\* The spawned task: println!, then the notification, whose error is only
\* logged.
TriggerTaskNotify(shown) ==
    /\ running
    /\ trigNotify > 0
    /\ trigNotify' = trigNotify - 1
    /\ trigEmit' = trigEmit + 1
    /\ Record("trigger_task_notify", << >>, NoRet,
              << NotifyEffect("Manual Task", shown = "Ok") >>)
    /\ UNCHANGED << frontend, emitted >>
    /\ ProcessSame /\ WindowSame /\ TickerSame

TriggerTaskEmit ==
    /\ running
    /\ trigEmit > 0
    /\ trigEmit' = trigEmit - 1
    /\ LogEmit("manual-task-completed", 0)
    /\ Record("trigger_task_emit", << >>, NoRet,
              << EmitEffect("manual-task-completed", emit_ok) >>)
    /\ UNCHANGED << trigNotify, frontend >>
    /\ ProcessSame /\ WindowSame /\ TickerSame

\* ------------------------------------------------------ window close hook

\* Variant: prevent_close() is missing, the close ends the application.
CloseRequested_DefaultClose ==
    /\ running
    /\ hookRegistered
    /\ running' = FALSE
    /\ Record("close_requested", << >>, NoRet, << >>)
    /\ UNCHANGED << quitHandled, frontend, handles, emitted >>
    /\ WindowSame /\ TickerSame /\ TasksSame

\* on_window_event, CloseRequested: prevent_close(), then hide if the window
\* can still be looked up.
CloseRequested ==
    /\ running
    /\ hookRegistered
    /\ IF window = "none"
         THEN UNCHANGED << window, focused >>
         ELSE window' = "hidden" /\ focused' = FALSE
    /\ Record("close_requested", << >>, NoRet, << >>)
    /\ UNCHANGED << hookRegistered, frontend, emitted >>
    /\ ProcessSame /\ TickerSame /\ TasksSame

\* --------------------------------------------------------------- ticker

\* tokio::time::interval: the first tick completes at once, tick n + 1 is due
\* n periods after the start, and ticks that were missed are delivered late.
TickDue == ticks * IntervalSecs <= elapsed

\* interval.tick().await returns; emit "check-due-action-items"; both arms of
\* the match fall through to the second emit.
\* Variant: the tick is skipped while the window is hidden.
TickerCheck_OnlyWhenShown ==
    /\ running
    /\ tickerPc = "wait"
    /\ TickDue
    /\ window # "hidden"
    /\ ticks' = ticks + 1
    /\ LogEmit("check-due-action-items", ticks + 1)
    /\ checkResult' = emit_result
    /\ tickerPc' = "emit_completed"
    /\ Record("ticker_check", << >>, NoRet,
              << EmitEffect("check-due-action-items", emit_ok) >>)
    /\ UNCHANGED << elapsed, frontend >>
    /\ ProcessSame /\ WindowSame /\ TasksSame

\* Variant: the loop does not await the tick.
TickerCheck_NoWait ==
    /\ running
    /\ tickerPc = "wait"
    /\ ticks' = ticks + 1
    /\ LogEmit("check-due-action-items", ticks + 1)
    /\ checkResult' = emit_result
    /\ tickerPc' = "emit_completed"
    /\ Record("ticker_check", << >>, NoRet,
              << EmitEffect("check-due-action-items", emit_ok) >>)
    /\ UNCHANGED << elapsed, frontend >>
    /\ ProcessSame /\ WindowSame /\ TasksSame

\* Variant: the Err arm continues with the next iteration.
TickerCheck_StopsOnError ==
    /\ running
    /\ tickerPc = "wait"
    /\ TickDue
    /\ ticks' = ticks + 1
    /\ LogEmit("check-due-action-items", ticks + 1)
    /\ checkResult' = emit_result
    /\ tickerPc' = IF emit_ok THEN "emit_completed" ELSE "wait"
    /\ Record("ticker_check", << >>, NoRet,
              << EmitEffect("check-due-action-items", emit_ok) >>)
    /\ UNCHANGED << elapsed, frontend >>
    /\ ProcessSame /\ WindowSame /\ TasksSame

TickerCheck ==
    /\ running
    /\ tickerPc = "wait"
    /\ TickDue
    /\ ticks' = ticks + 1
    /\ LogEmit("check-due-action-items", ticks + 1)
    /\ checkResult' = emit_result
    /\ tickerPc' = "emit_completed"
    /\ Record("ticker_check", << >>, NoRet,
              << EmitEffect("check-due-action-items", emit_ok) >>)
    /\ UNCHANGED << elapsed, frontend >>
    /\ ProcessSame /\ WindowSame /\ TasksSame

\* Variant: the second emit repeats the name of the first.
TickerCompleted_WrongEvent ==
    /\ running
    /\ tickerPc = "emit_completed"
    /\ LogEmit("check-due-action-items", ticks)
    /\ tickerPc' = "wait"
    /\ checkResult' = "none"
    /\ Record("ticker_completed", << >>, NoRet,
              << EmitEffect("check-due-action-items", emit_ok) >>)
    /\ UNCHANGED << elapsed, ticks, frontend >>
    /\ ProcessSame /\ WindowSame /\ TasksSame

\* emit "background-task-completed"; back to the top of the loop.
TickerCompleted ==
    /\ running
    /\ tickerPc = "emit_completed"
    /\ LogEmit("background-task-completed", ticks)
    /\ tickerPc' = "wait"
    /\ checkResult' = "none"
    /\ Record("ticker_completed", << >>, NoRet,
              << EmitEffect("background-task-completed", emit_ok) >>)
    /\ UNCHANGED << elapsed, ticks, frontend >>
    /\ ProcessSame /\ WindowSame /\ TasksSame

\* --------------------------------------------------------- specification

Next ==
    \/ TimePasses
    \/ FrontendAttach
    \/ FrontendDetach
    \/ WindowGone
    \/ \E name \in Names : Greet(name)
    \/ GetBackgroundTaskStatus
    \/ TriggerBackgroundTask
    \/ \E title \in Titles, body \in Bodies, shown \in ShowResults :
          SendNotification(title, body, shown)
    \/ \E title \in Titles, due \in DueDates, shown \in ShowResults :
          NotifyDueActionItem(title, due, shown)
    \/ ClearDueItemNotifications
    \/ \E cmd \in FrontendCalls, exe \in Executables : InvokeUnregistered(cmd, exe)
    \/ \E queried \in {"Ok", "Err"} : TrayClick(queried)
    \/ TrayOtherEvent
    \/ MenuShow
    \/ MenuHide
    \/ \E shown \in ShowResults : MenuStatus(shown)
    \/ MenuTrigger
    \/ \E shown \in ShowResults : MenuClearNotifications(shown)
    \/ MenuQuit
    \/ MenuOther
    \/ \E shown \in ShowResults : TriggerTaskNotify(shown)
    \/ TriggerTaskEmit
    \/ CloseRequested
    \/ TickerCheck
    \/ TickerCompleted

Spec == Init /\ [][Next]_vars

\* The async runtime runs every task that is ready: a spawned trigger task
\* until it has finished, and the ticker once its tick is due.
TaskFairness ==
    /\ WF_vars(\E shown \in ShowResults : TriggerTaskNotify(shown))
    /\ WF_vars(TriggerTaskEmit)

TickerFairness ==
    /\ WF_vars(TickerCheck)
    /\ WF_vars(TickerCompleted)

FairTaskSpec == Spec /\ TaskFairness

FairTickerSpec == Spec /\ TickerFairness

\* ------------------------------------------------------------ properties

NumEmitted(name) == Cardinality({i \in DOMAIN emitted : emitted[i].name = name})

IsTickerEntry(e) == e.tick > 0
TickerEmitted == SelectSeq(emitted, IsTickerEntry)

C2_CloseHidesOnlyQuitExits ==
    [][ /\ (last'.op = "close_requested" /\ window # "none")
              => (window' = "hidden" /\ running')
        /\ (running /\ ~running') => (last'.op = "menu_quit" /\ quitHandled')
        /\ ~running' => quitHandled' ]_vars

C2_Witness ==
    /\ last.op = "close_requested"
    /\ window = "hidden"
    /\ running
    /\ ~quitHandled

\* C3: a left click on the tray icon hides a visible window, shows and focuses
\* a hidden one, and shows and focuses the window when the visibility query
\* fails.
C3_TrayClickToggles ==
    [][ last'.op = "tray_click" =>
          /\ (last'.args = << "Ok" >> /\ window = "visible")
                => (window' = "hidden" /\ running')
          /\ (last'.args = << "Ok" >> /\ window = "hidden")
                => (window' = "visible" /\ focused' /\ running')
          /\ (last'.args = << "Err" >> /\ window # "none")
                => (window' = "visible" /\ focused' /\ running') ]_vars

C3_Witness ==
    /\ last.op = "tray_click"
    /\ last.args = << "Err" >>
    /\ window = "visible"
    /\ focused

\* C4: every invocation of clear_due_item_notifications makes exactly one
\* attempt to emit "clear-due-item-notifications", whatever was emitted
\* before; with the frontend attached the emission succeeds and the command
\* returns the confirmation text.
C4_ClearCommandEmitsOnce ==
    [][ last'.op = "clear_due_item_notifications" =>
          /\ emitted' = Append(emitted,
                [name |-> "clear-due-item-notifications", tick |-> 0])
          /\ last'.out = << EmitEffect("clear-due-item-notifications", frontend) >>
          /\ frontend =>
                last'.ret = Ok(<< "Notification clear request sent to frontend" >>)
          /\ ~frontend => last'.ret.tag = "Err" ]_vars

C4_Witness ==
    /\ last.op = "clear_due_item_notifications"
    /\ last.ret.tag = "Ok"
    /\ Len(emitted) >= 2
    /\ emitted[Len(emitted)].name = "clear-due-item-notifications"
    /\ emitted[Len(emitted) - 1].name = "clear-due-item-notifications"

NonEmptyString(str) == str # << >> /\ \E i \in DOMAIN str : str[i] # ""

\* C5: send_notification asks the display layer once and returns success
\* exactly when the request was accepted; otherwise it returns an error whose
\* string is not empty.
C5_SendNotificationOutcome ==
    last.op = "send_notification" =>
        /\ Len(last.out) = 1
        /\ last.out[1].kind = "notify"
        /\ last.out[1].name = last.args[1]
        /\ last.ret.tag \in {"Ok", "Err"}
        /\ last.ret.tag = "Ok" <=> last.out[1].ok
        /\ last.ret.tag = "Err" => NonEmptyString(last.ret.val)

C5_Witness ==
    /\ last.op = "send_notification"
    /\ last.ret.tag = "Err"
    /\ ~last.out[1].ok

Mentions(msg, piece) == \E i \in DOMAIN msg : msg[i] = piece

\* C6: run_command can be invoked by the frontend, and when the executable
\* cannot be launched the error string it returns mentions the executable.
C6_RunCommandReportsExecutable ==
    last.op = "run_command" =>
        /\ "run_command" \in invoke_handler
        /\ last.ret.tag = "Err"
        /\ Mentions(last.ret.val, last.args[1])

\* C7, as the specification states it: the window goes from visible to hidden
\* only through the close-request hook.
C7_OnlyCloseHookHides ==
    [][ (window = "visible" /\ window' = "hidden")
            => last'.op = "close_requested" ]_vars

\* C7, amended: while the process is running the window goes from visible to
\* hidden only through the close-request hook, a left click on the tray icon
\* or the tray menu item "hide"; no other event hides it.
C7_HidingPaths ==
    [][ (window = "visible" /\ window' = "hidden") =>
          /\ last'.op \in {"close_requested", "tray_click", "menu_hide"}
          /\ running' ]_vars

C7_Witness ==
    /\ last.op = "menu_hide"
    /\ window = "hidden"
    /\ running

EffectSet(out) == {[kind |-> out[i].kind, name |-> out[i].name] : i \in DOMAIN out}

\* C8, as the specification states it: a tray menu item has the same effects
\* as the command of the same purpose.
C8_TraySameAsCommand ==
    /\ last.op = "menu_status" => EffectSet(last.out) = EffectSet(StatusCmdEffects)
    /\ last.op \in {"menu_trigger", "trigger_task_notify", "trigger_task_emit"}
          => EffectSet(last.out) = EffectSet(TriggerCmdEffects)
    /\ last.op = "menu_clear_notifications"
          => EffectSet(last.out) = EffectSet(ClearCmdEffects)

\* C8, amended: only "clear-notifications" shares an effect with its command,
\* the single attempt to emit "clear-due-item-notifications", and the tray
\* item also asks for the notification "Notifications Cleared" when that
\* emission succeeded.  The commands get_background_task_status and
\* trigger_background_task emit nothing and display nothing, while the tray
\* item "status" asks for the notification "Background Task Status" and the
\* task spawned by "trigger" asks for the notification "Manual Task" and then
\* attempts to emit "manual-task-completed".
C8_TrayVersusCommand ==
    /\ last.op \in {"get_background_task_status", "trigger_background_task",
                    "menu_trigger"}
          => last.out = << >>
    /\ last.op = "menu_status"
          => EffectSet(last.out) =
                {[kind |-> "notify", name |-> "Background Task Status"]}
    /\ last.op = "trigger_task_notify"
          => EffectSet(last.out) = {[kind |-> "notify", name |-> "Manual Task"]}
    /\ last.op = "trigger_task_emit"
          => EffectSet(last.out) =
                {[kind |-> "emit", name |-> "manual-task-completed"]}
    /\ last.op = "clear_due_item_notifications"
          => EffectSet(last.out) =
                {[kind |-> "emit", name |-> "clear-due-item-notifications"]}
    /\ last.op = "menu_clear_notifications"
          => /\ Len(last.out) >= 1
             /\ last.out[1].kind = "emit"
             /\ last.out[1].name = "clear-due-item-notifications"
             /\ EffectSet(last.out) =
                  (IF last.out[1].ok
                     THEN {[kind |-> "emit", name |-> "clear-due-item-notifications"],
                           [kind |-> "notify", name |-> "Notifications Cleared"]}
                     ELSE {[kind |-> "emit", name |-> "clear-due-item-notifications"]})

C8_Witness ==
    /\ last.op = "menu_clear_notifications"
    /\ Len(last.out) = 2
    /\ last.out[2].kind = "notify"

\* C9, as the specification states it: nothing is emitted between the two
\* emissions of one tick.
C9_NothingBetween ==
    \A i \in DOMAIN emitted :
        (emitted[i].name = "check-due-action-items" /\ i < Len(emitted))
            => emitted[i + 1] =
                  [name |-> "background-task-completed", tick |-> emitted[i].tick]

\* C9, amended: among the ticker's own emissions "background-task-completed"
\* comes next after "check-due-action-items" of the same tick, but the two are
\* not atomic: "clear-due-item-notifications" (a command or the tray menu) and
\* "manual-task-completed" (a trigger task) may be emitted between them.
C9_TickerOrder ==
    /\ \A i \in DOMAIN TickerEmitted :
          TickerEmitted[i] =
             (IF i % 2 = 1
                THEN [name |-> "check-due-action-items", tick |-> (i + 1) \div 2]
                ELSE [name |-> "background-task-completed", tick |-> i \div 2])
    /\ \A i \in DOMAIN emitted :
          ~IsTickerEntry(emitted[i]) =>
              emitted[i].name \in {"clear-due-item-notifications",
                                   "manual-task-completed"}

C9_Witness ==
    /\ Len(emitted) >= 3
    /\ emitted[1] = [name |-> "check-due-action-items", tick |-> 1]
    /\ emitted[2].name \in {"clear-due-item-notifications", "manual-task-completed"}
    /\ emitted[3] = [name |-> "background-task-completed", tick |-> 1]

\* C10: in every tick the ticker attempts each of its two emissions exactly
\* once whatever their outcomes: the attempt to emit "check-due-action-items"
\* is always followed by the attempt to emit "background-task-completed", a
\* failed attempt is not repeated, and the ticker always returns to waiting
\* for the next tick.
C10_EmissionFailureIgnored ==
    [][ /\ last'.op = "ticker_check" =>
              /\ tickerPc = "wait" /\ tickerPc' = "emit_completed"
              /\ ticks' = ticks + 1
              /\ emitted' = Append(emitted,
                    [name |-> "check-due-action-items", tick |-> ticks'])
        /\ last'.op = "ticker_completed" =>
              /\ tickerPc = "emit_completed" /\ tickerPc' = "wait"
              /\ ticks' = ticks
              /\ emitted' = Append(emitted,
                    [name |-> "background-task-completed", tick |-> ticks])
        /\ last'.op \notin {"ticker_check", "ticker_completed"} =>
              (tickerPc' = tickerPc /\ ticks' = ticks)
        /\ tickerPc' \in {"wait", "emit_completed"} ]_vars

C10_Witness ==
    /\ last.op = "ticker_check"
    /\ checkResult = "Err"
    /\ ~last.out[1].ok
    /\ tickerPc = "emit_completed"
    /\ running

\* C11: the tray menu item "clear-notifications" first attempts to emit
\* "clear-due-item-notifications" and asks for the notification
\* "Notifications Cleared" after it, and only if the emission succeeded; when
\* the emission fails nothing is displayed and the process keeps running.
C11_ConfirmationOnlyAfterEmit ==
    [][ last'.op = "menu_clear_notifications" =>
          /\ emitted' = Append(emitted,
                [name |-> "clear-due-item-notifications", tick |-> 0])
          /\ last'.out[1] = EmitEffect("clear-due-item-notifications", frontend)
          /\ frontend =>
                /\ Len(last'.out) = 2
                /\ last'.out[2].kind = "notify"
                /\ last'.out[2].name = "Notifications Cleared"
          /\ ~frontend => Len(last'.out) = 1
          /\ running' /\ ~quitHandled' ]_vars

C11_Witness ==
    /\ last.op = "menu_clear_notifications"
    /\ last.out = << EmitEffect("clear-due-item-notifications", FALSE) >>
    /\ running

LogFull == Len(emitted) = MaxLog

\* C12: the handler of the tray menu item "trigger" only spawns a task: it
\* emits nothing and displays nothing itself, and other events can be handled
\* before the task runs.  Each spawned task asks once for the notification
\* "Manual Task" and then, whether or not that request failed, attempts once
\* to emit "manual-task-completed"; while the process is not quit (and the
\* emission log of the model has room) a pending task always gets there.
C12_TriggerTaskRuns ==
    /\ [][ /\ last'.op = "menu_trigger" =>
                /\ trigNotify' = trigNotify + 1 /\ trigEmit' = trigEmit
                /\ last'.out = << >> /\ emitted' = emitted /\ running'
           /\ last'.op = "trigger_task_notify" =>
                /\ trigNotify' = trigNotify - 1 /\ trigEmit' = trigEmit + 1
                /\ EffectSet(last'.out) = {[kind |-> "notify", name |-> "Manual Task"]}
                /\ Len(last'.out) = 1
                /\ emitted' = emitted
           /\ last'.op = "trigger_task_emit" =>
                /\ trigNotify' = trigNotify /\ trigEmit' = trigEmit - 1
                /\ trigEmit > 0
                /\ emitted' = Append(emitted,
                      [name |-> "manual-task-completed", tick |-> 0])
           /\ last'.op \notin {"menu_trigger", "trigger_task_notify",
                               "trigger_task_emit"} =>
                /\ trigNotify' = trigNotify /\ trigEmit' = trigEmit
                /\ NumEmitted("manual-task-completed")' =
                      NumEmitted("manual-task-completed") ]_vars
    /\ (trigNotify + trigEmit > 0)
          ~> (last.op = "trigger_task_emit" \/ ~running \/ LogFull)

C12_Witness ==
    /\ last.op = "trigger_task_notify"
    /\ ~last.out[1].ok
    /\ trigEmit > 0
    /\ running

\* C13: the tray menu item "quit" ends the process at once, without running
\* the work in flight: the handler emits and displays nothing and leaves the
\* spawned tasks and the ticker where they are, and once it has been handled
\* nothing is emitted or displayed any more, so a spawned trigger task may
\* never emit "manual-task-completed".
C13_QuitDropsWorkInFlight ==
    [][ /\ last'.op = "menu_quit" =>
              /\ ~running' /\ quitHandled'
              /\ last'.out = << >>
              /\ emitted' = emitted
              /\ trigNotify' = trigNotify /\ trigEmit' = trigEmit
              /\ tickerPc' = tickerPc /\ ticks' = ticks
        /\ quitHandled => (emitted' = emitted /\ last' = last) ]_vars

C13_Witness ==
    /\ quitHandled
    /\ ~running
    /\ last.op = "menu_quit"
    /\ trigNotify + trigEmit > 0
    /\ NumEmitted("manual-task-completed") = 0

\* C14: from the end of setup to the exit of the process there is exactly one
\* tray icon, exactly one ticker task and at most one main window: no step
\* creates a tray icon, a window or a ticker, and the ticker is neither
\* cancelled nor restarted (it stays inside its loop and its tick count never
\* goes back).
C14_SingleTrayTickerWindow ==
    /\ [](running =>
            /\ handles.trays = 1
            /\ handles.tickers = 1
            /\ handles.windows = (IF window = "none" THEN 0 ELSE 1)
            /\ tickerPc \in {"wait", "emit_completed"})
    /\ [][ /\ handles'.trays = handles.trays
           /\ handles'.tickers = handles.tickers
           /\ handles'.windows <= handles.windows
           /\ ticks' >= ticks
           /\ (tickerPc = "emit_completed" /\ tickerPc' = "wait")
                 => last'.op = "ticker_completed" ]_vars

C14_Witness ==
    /\ running
    /\ handles = [trays |-> 1, tickers |-> 1, windows |-> 1]
    /\ ticks >= 2
    /\ trigNotify + trigEmit > 0
    /\ window = "hidden"

NoWindowOps == {"tray_click", "menu_show", "menu_hide", "close_requested"}

\* C15: when the main window cannot be looked up, the left click on the tray
\* icon, the menu items "show" and "hide" and the close-request hook do
\* nothing: the window, the process and every task stay as they are, nothing
\* is emitted or displayed and no error is returned.
C15_NoWindowNoOp ==
    [][ (window = "none" /\ last'.op \in NoWindowOps) =>
          /\ UNCHANGED << running, quitHandled, window, focused, hookRegistered,
                          frontend, elapsed, ticks, tickerPc, checkResult,
                          trigNotify, trigEmit, handles, emitted >>
          /\ last'.ret = NoRet
          /\ last'.out = << >> ]_vars

C15_Witness ==
    /\ last.op = "close_requested"
    /\ window = "none"
    /\ hookRegistered
    /\ running

\* C16: the ticker does not depend on the window.  Close requests, tray clicks
\* and the menu items "show" and "hide" leave the ticker and its emissions
\* untouched, and with the window hidden a tick that is due is still followed
\* by the emission attempts of "check-due-action-items" and
\* "background-task-completed", as long as the process is not quit (and the
\* emission log of the model has room).
C16_TickerIgnoresWindow ==
    /\ [][ last'.op \in NoWindowOps =>
              UNCHANGED << elapsed, ticks, tickerPc, checkResult, emitted >> ]_vars
    /\ (window = "hidden" /\ tickerPc = "wait" /\ ticks * IntervalSecs <= elapsed)
          ~> (last.op = "ticker_completed" \/ ~running \/ LogFull)

C16_Witness ==
    /\ window = "hidden"
    /\ running
    /\ hookRegistered
    /\ last.op = "ticker_check"
    /\ ticks = 2
    /\ elapsed >= IntervalSecs
    /\ NumEmitted("background-task-completed") = 1
    /\ emitted[Len(emitted)] = [name |-> "check-due-action-items", tick |-> 2]

====
